---------------------------- MODULE Spec2Model ----------------------------
(***************************************************************************)
(* Model of the bombguy tile automaton (src/index.ts): the tile variants,  *)
(* the grid (GameMap) with its bounds-checked accessors, the explosion,    *)
(* the snapshot-driven updateTiles pass, the Player operations, and the    *)
(* frame loop of Game with the input queue and the tick divisor.           *)
(*                                                                         *)
(* The grid is the code's tiles[y][x]: a sequence of rows, each a sequence *)
(* of tiles; the code's 0-based (x, y) is the model's tiles[y + 1][x + 1]. *)
(* A tile is the name of its class: tiles carry no fields.                 *)
(***************************************************************************)
EXTENDS Integers, Sequences, FiniteSets, TLC

VARIABLES
  tiles,      \* GameMap.tiles
  playerX,    \* Player.x
  playerY,    \* Player.y
  bombCount,  \* Player.bombCount
  gameOver,   \* GameState.gameOver
  exploded,   \* history: origins of the explode() calls of the latest updateTiles pass
  fuse,       \* history: per cell, updateTiles passes since placeBomb wrote a Bomb there (-1: none)
  last,       \* history: the latest operation, its arguments, and the state it started from
  inputs,     \* InputHandler.inputs
  delay,      \* GameState.delay
  tickReady,  \* GameState.tickReady
  frames,     \* history: the calls of Game.update so far
  typed,      \* history: the keydown events so far
  relocated,  \* history: the <<from, to>> of the moves tryMove made in the latest pass, in order
  killed      \* history: the cells where the explosions of the latest pass destroyed a monster

vars ==
  <<tiles, playerX, playerY, bombCount, gameOver, exploded, fuse, last,
    inputs, delay, tickReady, frames, typed, relocated, killed>>

\* The state of the input queue and of GameState's frame counter.
clock == <<inputs, delay, tickReady, frames, typed>>

\* The history of the latest updateTiles pass.
pass == <<exploded, relocated, killed>>

---------------------------------------------------------------------------
(* Bounds of the model.                                                    *)

\* Non-Air cells of an initial map of the specification of the operations.
MaxFeatures == 2
\* The fuse history stops counting passes at this number.
FuseCap == 4
\* Bombs placed by placeBomb in one behaviour of the fuse specification.
MaxPlaced == 1
\* Non-Air cells of an initial map of the specification of the accessors.
MaxObstacles == 1
\* Calls of Game.update in one behaviour of the specification of the game.
MaxFrames == 31
\* Keydown events in one behaviour of the specification of the game.
MaxKeys == 2

\* window.onload: new Game(initialMapData, 1, 1, 1).
startX == 1
startY == 1
initialBombs == 1

\* The frames and the ticks of a second; new GameState(FPS / TPS).
FPS == 30
TPS == 2
initialDelay == FPS \div TPS

\* The shape of the initial maps: a rawMapData of Air codes, 3 x 3.
Template == << <<0, 0, 0>>, <<0, 0, 0>>, <<0, 0, 0>> >>

---------------------------------------------------------------------------
(* Tiles.                                                                  *)

\* TileFactory.tileMapping: the tile each numeric code creates (code + 1).
tileMapping ==
  << "Air", "Unbreakable", "Stone", "Bomb", "BombClose", "BombReallyClose",
     "Fire", "ExtraBombPowerup", "MonsterUp", "MonsterRight",
     "TmpMonsterRight", "MonsterDown", "TmpMonsterDown", "MonsterLeft" >>

Tile == { tileMapping[i] : i \in 1..Len(tileMapping) }

\* TileFactory.createTile: an unknown code creates Air.
createTile(tileType) ==
  IF tileType + 1 \in DOMAIN tileMapping THEN tileMapping[tileType + 1] ELSE "Air"

\* The classes that extend BaseMonster.
Monsters ==
  { "MonsterUp", "MonsterRight", "TmpMonsterRight",
    "MonsterDown", "TmpMonsterDown", "MonsterLeft" }

\* The three BombState classes.
BombStages == { "Bomb", "BombClose", "BombReallyClose" }

\* isAir: BaseTile false, Air true.
isAir(tile) == tile = "Air"

\* A faulty isWalkable: a Bomb can be walked on.
isWalkableBombs(tile) == tile \in { "Air", "ExtraBombPowerup", "Fire", "Bomb" }

\* isWalkable: BaseTile false; Air, ExtraBombPowerup and Fire true.
isWalkable(tile) == tile \in { "Air", "ExtraBombPowerup", "Fire" }

\* isExplodable: BaseTile true; Unbreakable, ExtraBombPowerup and the bombs false.
isExplodable(tile) ==
  tile \notin { "Unbreakable", "ExtraBombPowerup", "Bomb", "BombClose", "BombReallyClose" }

---------------------------------------------------------------------------
(* GameMap.                                                                *)

\* GameMap.initializeMap: one tile per code, row by row.
initializeMap(rawMapData) ==
  [ r \in 1..Len(rawMapData) |->
      [ c \in 1..Len(rawMapData[r]) |-> createTile(rawMapData[r][c]) ] ]

\* GameMap.isValid.
isValid(g, x, y) ==
  y >= 0 /\ y < Len(g) /\ x >= 0 /\ x < Len(g[y + 1])

\* A faulty getTile: out of bounds reads Air.
getTileAir(g, x, y) ==
  IF isValid(g, x, y) THEN g[y + 1][x + 1] ELSE "Air"

\* GameMap.getTile: out of bounds reads a fresh Unbreakable.
getTile(g, x, y) ==
  IF isValid(g, x, y) THEN g[y + 1][x + 1] ELSE "Unbreakable"

\* GameMap.setTile: out of bounds writes nothing.
setTile(g, x, y, tile) ==
  IF isValid(g, x, y) THEN [ g EXCEPT ![y + 1][x + 1] = tile ] ELSE g

\* A faulty onDestroy: a destroyed Stone leaves Air.
onDestroyRubble(g, x, y, tile, lucky) ==
  CASE tile = "Stone" -> setTile(g, x, y, "Air")
    [] tile \in Monsters -> setTile(g, x, y, "Fire")
    [] OTHER -> g

\* onDestroy of the tile class `tile`, at (x, y). `lucky` is the set of cells
\* where Math.random() < 0.1 comes out true in Stone.onDestroy.
onDestroy(g, x, y, tile, lucky) ==
  CASE tile = "Stone" ->
         setTile(g, x, y, IF <<x, y>> \in lucky THEN "ExtraBombPowerup" ELSE "Fire")
    [] tile \in Monsters -> setTile(g, x, y, "Fire")
    [] OTHER -> g

\* GameMap.tryExplodeTile.
tryExplodeTile(g, x, y, lucky) ==
  LET tile == getTile(g, x, y)
  IN  IF isExplodable(tile) THEN onDestroy(g, x, y, tile, lucky) ELSE g

\* A faulty explode: the last probe is one row too low.
explodeDiagonal(g, x, y, lucky) ==
  LET g0 == onDestroy(g, x, y, getTile(g, x, y), lucky)
      g1 == tryExplodeTile(g0, x + 0, y - 1, lucky)
      g2 == tryExplodeTile(g1, x + 0, y + 1, lucky)
      g3 == tryExplodeTile(g2, x - 1, y + 0, lucky)
  IN  tryExplodeTile(g3, x + 1, y + 1, lucky)

\* GameMap.explode: the origin, then up, down, left, right.
explode(g, x, y, lucky) ==
  LET g0 == onDestroy(g, x, y, getTile(g, x, y), lucky)
      g1 == tryExplodeTile(g0, x + 0, y - 1, lucky)
      g2 == tryExplodeTile(g1, x + 0, y + 1, lucky)
      g3 == tryExplodeTile(g2, x - 1, y + 0, lucky)
  IN  tryExplodeTile(g3, x + 1, y + 0, lucky)


---------------------------------------------------------------------------
(* Tile.update, per class.                                                 *)

\* A faulty nextState: a Bomb skips BombClose.
nextStateSkip(tile) ==
  CASE tile = "Bomb" -> "BombReallyClose"
    [] tile = "BombClose" -> "BombReallyClose"
    [] tile = "BombReallyClose" -> "Fire"

\* BombState.nextState.
nextState(tile) ==
  CASE tile = "Bomb" -> "BombClose"
    [] tile = "BombClose" -> "BombReallyClose"
    [] tile = "BombReallyClose" -> "Fire"

\* A faulty nextDirection: the rotation runs the other way.
nextDirectionBack(tile) ==
  CASE tile \in { "MonsterRight", "TmpMonsterRight" } -> "MonsterUp"
    [] tile \in { "MonsterDown", "TmpMonsterDown" } -> "MonsterRight"
    [] tile = "MonsterLeft" -> "MonsterDown"
    [] tile = "MonsterUp" -> "MonsterLeft"

\* MonsterState.nextDirection.
nextDirection(tile) ==
  CASE tile \in { "MonsterRight", "TmpMonsterRight" } -> "MonsterDown"
    [] tile \in { "MonsterDown", "TmpMonsterDown" } -> "MonsterLeft"
    [] tile = "MonsterLeft" -> "MonsterUp"
    [] tile = "MonsterUp" -> "MonsterRight"

\* Faulty arguments of tryMove: a MonsterRight steps two cells.
moveArgsLeap(tile) ==
  CASE tile = "MonsterRight" -> <<2, 0, "TmpMonsterRight">>
    [] tile = "MonsterDown" -> <<0, 1, "TmpMonsterDown">>
    [] tile = "MonsterLeft" -> <<-1, 0, "MonsterLeft">>
    [] tile = "MonsterUp" -> <<0, -1, "MonsterUp">>

\* The (dx, dy, nextStateIfMoved) each directional monster passes to tryMove.
moveArgs(tile) ==
  CASE tile = "MonsterRight" -> <<1, 0, "TmpMonsterRight">>
    [] tile = "MonsterDown" -> <<0, 1, "TmpMonsterDown">>
    [] tile = "MonsterLeft" -> <<-1, 0, "MonsterLeft">>
    [] tile = "MonsterUp" -> <<0, -1, "MonsterUp">>

\* A faulty tryMove: the source cell is not cleared.
tryMoveKeep(g, x, y, dx, dy, nextStateIfMoved) ==
  IF ~isAir(getTile(g, x + dx, y + dy))
  THEN [ moved |-> FALSE, tiles |-> g ]
  ELSE [ moved |-> TRUE, tiles |-> setTile(g, x + dx, y + dy, nextStateIfMoved) ]

\* BaseMonster.tryMove: the grid after it, and whether it moved. The
\* destination is read from the live grid g.
tryMove(g, x, y, dx, dy, nextStateIfMoved) ==
  IF ~isAir(getTile(g, x + dx, y + dy))
  THEN [ moved |-> FALSE, tiles |-> g ]
  ELSE [ moved |-> TRUE,
         tiles |-> setTile(setTile(g, x, y, "Air"), x + dx, y + dy, nextStateIfMoved) ]

\* A faulty move: a blocked monster writes its next facing one cell ahead.
moveAhead(g, x, y, tile) ==
  LET a == moveArgs(tile)
      r == tryMove(g, x, y, a[1], a[2], a[3])
  IN  IF r.moved THEN r.tiles
      ELSE setTile(r.tiles, x + a[1], y + a[2], nextDirection(tile))

\* move of MonsterRight, MonsterDown, MonsterLeft, MonsterUp.
move(g, x, y, tile) ==
  LET a == moveArgs(tile)
      r == tryMove(g, x, y, a[1], a[2], a[3])
  IN  IF r.moved THEN r.tiles ELSE setTile(r.tiles, x, y, nextDirection(tile))

\* The move tryMove makes for directional monster `tile` at (x, y), if any:
\* <<from, to>>.
relocation(g, x, y, tile) ==
  LET a == moveArgs(tile)
  IN  IF tryMove(g, x, y, a[1], a[2], a[3]).moved
      THEN << << <<x, y>>, <<x + a[1], y + a[2]>> >> >>
      ELSE << >>

\* The cells where explode(x, y) calls the onDestroy of a monster: the
\* orthogonal neighbours that hold one (every monster is explodable).
destroyedMonsters(g, x, y) ==
  { d \in { <<x, y - 1>>, <<x, y + 1>>, <<x - 1, y>>, <<x + 1, y>> } :
      /\ isValid(g, d[1], d[2])
      /\ getTile(g, d[1], d[2]) \in Monsters
      /\ isExplodable(getTile(g, d[1], d[2])) }

\* The map at the start of a pass: no explosion, move or kill yet.
passStart(g) == [ tiles |-> g, exploded |-> {}, relocated |-> << >>, killed |-> {} ]

\* update of the tile class `tile` (a tile of the snapshot) at (x, y), on the
\* live map m: its grid, and the history of the pass so far.
update(m, x, y, tile, lucky) ==
  CASE tile \in { "Bomb", "BombClose" } ->
         [ m EXCEPT !.tiles = setTile(m.tiles, x, y, nextState(tile)) ]
    [] tile = "BombReallyClose" ->
         [ m EXCEPT !.tiles = explode(m.tiles, x, y, lucky),
                    !.exploded = m.exploded \cup { <<x, y>> },
                    !.killed = m.killed \cup destroyedMonsters(m.tiles, x, y) ]
    [] tile = "Fire" -> [ m EXCEPT !.tiles = setTile(m.tiles, x, y, "Air") ]
    [] tile = "TmpMonsterDown" ->
         [ m EXCEPT !.tiles = setTile(m.tiles, x, y, "MonsterDown") ]
    [] tile = "TmpMonsterRight" ->
         [ m EXCEPT !.tiles = setTile(m.tiles, x, y, "MonsterRight") ]
    [] tile \in { "MonsterRight", "MonsterDown", "MonsterLeft", "MonsterUp" } ->
         [ m EXCEPT !.tiles = move(m.tiles, x, y, tile),
                    !.relocated = m.relocated \o relocation(m.tiles, x, y, tile) ]
    [] OTHER -> m

\* The loops of GameMap.updateTiles from cell (x, y) on, rows in increasing
\* y and cells in increasing x: the tile updated is the snapshot's.
RECURSIVE updateFrom(_, _, _, _, _)
updateFrom(m, currentState, x, y, lucky) ==
  IF y >= Len(currentState) THEN m
  ELSE IF x >= Len(currentState[y + 1])
       THEN updateFrom(m, currentState, 0, y + 1, lucky)
       ELSE updateFrom(update(m, x, y, currentState[y + 1][x + 1], lucky),
                       currentState, x + 1, y, lucky)

\* GameMap.updateTiles: currentState is the copy of the grid taken first.
updateTiles(g, lucky) ==
  LET currentState == g
  IN  updateFrom(passStart(g), currentState, 0, 0, lucky)

---------------------------------------------------------------------------
(* Player.                                                                 *)

\* Player.move: the new (x, y).
playerMove(g, x, y, dx, dy) ==
  LET nextTile == getTile(g, x + dx, y + dy)
  IN  IF isWalkable(nextTile) THEN <<x + dx, y + dy>> ELSE <<x, y>>

\* A faulty placeBomb: the bomb count is not looked at.
placeBombFree(g, x, y, count) ==
  IF isAir(getTile(g, x, y)) THEN setTile(g, x, y, "Bomb") ELSE g

\* Player.placeBomb: the grid after it.
placeBomb(g, x, y, count) ==
  IF count > 0 /\ isAir(getTile(g, x, y)) THEN setTile(g, x, y, "Bomb") ELSE g


\* A faulty checkCollision: the powerup picked up stays in its cell.
checkCollisionKeep(g, x, y, count, over) ==
  LET currentTile == getTile(g, x, y)
  IN  CASE currentTile = "ExtraBombPowerup" ->
             [ tiles |-> g, bombCount |-> count + 1, gameOver |-> over ]
        [] currentTile = "Fire" \/ currentTile \in Monsters ->
             [ tiles |-> g, bombCount |-> count, gameOver |-> TRUE ]
        [] OTHER -> [ tiles |-> g, bombCount |-> count, gameOver |-> over ]

\* onPlayerContact of the player's tile, from Player.checkCollision: the
\* grid, the bomb count and the game-over flag after it.
checkCollision(g, x, y, count, over) ==
  LET currentTile == getTile(g, x, y)
  IN  CASE currentTile = "ExtraBombPowerup" ->
             [ tiles |-> setTile(g, x, y, "Air"), bombCount |-> count + 1, gameOver |-> over ]
        [] currentTile = "Fire" \/ currentTile \in Monsters ->
             [ tiles |-> g, bombCount |-> count, gameOver |-> TRUE ]
        [] OTHER -> [ tiles |-> g, bombCount |-> count, gameOver |-> over ]

---------------------------------------------------------------------------
(* InputHandler, GameState and Game. A game s is a record of the fields of *)
(* Game's parts (tiles, playerX, playerY, bombCount, gameOver, inputs,     *)
(* delay, tickReady) and of the history of the frame under way: path, the  *)
(* cells Player.move put the player on, in order; bombs, the cells         *)
(* placeBomb wrote a Bomb to; ticked, whether updateTiles ran, and its     *)
(* pass.                                                                   *)

\* The keys of keydown events: those of keyMap, and one that keyMap lacks.
Keys ==
  { "ArrowLeft", "a", "ArrowUp", "w", "ArrowRight", "d", "ArrowDown", "s", " ", "Enter" }

\* keyMap of InputHandler.setupEventListeners: the Input class a key creates.
keyMap(key) ==
  CASE key \in { "ArrowLeft", "a" } -> "LeftInput"
    [] key \in { "ArrowUp", "w" } -> "UpInput"
    [] key \in { "ArrowRight", "d" } -> "RightInput"
    [] key \in { "ArrowDown", "s" } -> "DownInput"
    [] key = " " -> "PlaceBombInput"
    [] OTHER -> "undefined"

\* The keydown listener: a key of keyMap pushes its input, another nothing.
addInput(queue, key) ==
  IF keyMap(key) # "undefined" THEN Append(queue, keyMap(key)) ELSE queue

\* Player.move called by an Up/Down/Left/RightInput on game s.
inputMove(s, dx, dy) ==
  LET to == playerMove(s.tiles, s.playerX, s.playerY, dx, dy)
  IN  [ s EXCEPT !.playerX = to[1], !.playerY = to[2],
                 !.path = IF to # <<s.playerX, s.playerY>> THEN Append(s.path, to) ELSE s.path ]

\* Player.placeBomb called by a PlaceBombInput on game s.
inputPlaceBomb(s) ==
  LET g == placeBomb(s.tiles, s.playerX, s.playerY, s.bombCount)
  IN  [ s EXCEPT !.tiles = g,
                 !.bombs = IF g # s.tiles THEN s.bombs \cup { <<s.playerX, s.playerY>> }
                                          ELSE s.bombs ]

\* Input.handle, per class.
handle(s, input) ==
  CASE input = "UpInput" -> inputMove(s, 0, -1)
    [] input = "DownInput" -> inputMove(s, 0, 1)
    [] input = "LeftInput" -> inputMove(s, -1, 0)
    [] input = "RightInput" -> inputMove(s, 1, 0)
    [] input = "PlaceBombInput" -> inputPlaceBomb(s)

\* Game.handleInputs: while the game is not over, popInput takes the input
\* pushed last, and it is handled.
RECURSIVE handleInputs(_)
handleInputs(s) ==
  IF ~s.gameOver /\ Len(s.inputs) > 0
  THEN LET currentInput == s.inputs[Len(s.inputs)]
       IN  handleInputs(handle([ s EXCEPT !.inputs = SubSeq(s.inputs, 1, Len(s.inputs) - 1) ],
                               currentInput))
  ELSE s

\* A faulty GameState.update: the tick is ready one frame late.
gameStateUpdateLate(s) ==
  IF s.delay - 1 < 0
  THEN [ s EXCEPT !.delay = initialDelay, !.tickReady = TRUE ]
  ELSE [ s EXCEPT !.delay = s.delay - 1, !.tickReady = FALSE ]

\* GameState.update: --delay, and at 0 the tick is ready and delay starts
\* again from initialDelay.
gameStateUpdate(s) ==
  IF s.delay - 1 <= 0
  THEN [ s EXCEPT !.delay = initialDelay, !.tickReady = TRUE ]
  ELSE [ s EXCEPT !.delay = s.delay - 1, !.tickReady = FALSE ]

\* The updateTiles call of Game.update, made when the tick is ready.
tick(s, lucky) ==
  IF s.tickReady
  THEN LET m == updateTiles(s.tiles, lucky)
       IN  [ s EXCEPT !.tiles = m.tiles, !.ticked = TRUE, !.exploded = m.exploded,
                      !.relocated = m.relocated, !.killed = m.killed ]
  ELSE s

\* The checkCollision call of Game.update.
collide(s) ==
  LET r == checkCollision(s.tiles, s.playerX, s.playerY, s.bombCount, s.gameOver)
  IN  [ s EXCEPT !.tiles = r.tiles, !.bombCount = r.bombCount, !.gameOver = r.gameOver ]

\* Game.update: handleInputs, GameState.update, updateTiles if the tick is
\* ready, checkCollision.
gameUpdate(s, lucky) ==
  collide(tick(gameStateUpdate(handleInputs(s)), lucky))

\* A faulty gameLoop: update is called whether or not the game is over.
gameLoopOn(s, lucky) == gameUpdate(s, lucky)

\* Game.gameLoop, but for draw and the timer: update unless the game is over.
gameLoop(s, lucky) ==
  IF ~s.gameOver THEN gameUpdate(s, lucky) ELSE s

---------------------------------------------------------------------------
(* State.                                                                  *)

\* The in-bounds positions (x, y) of the maps of Template's shape.
Cells ==
  { <<x, y>> : x \in 0..(Len(Template[1]) - 1), y \in 0..(Len(Template) - 1) }

\* The positions the accessors are probed at: the grid and a ring around it.
Probes ==
  { <<x, y>> : x \in -1..Len(Template[1]), y \in -1..Len(Template) }

\* The (dx, dy) of UpInput, DownInput, LeftInput, RightInput.
Directions == { <<0, -1>>, <<0, 1>>, <<-1, 0>>, <<1, 0>> }

\* The tile of grid g at an in-bounds cell.
At(g, c) == g[c[2] + 1][c[1] + 1]

\* A rawMapData: Template with the code f[c] at each cell c of f's domain.
rawMapData(f) ==
  [ r \in 1..Len(Template) |->
      [ c \in 1..Len(Template[r]) |->
          IF <<c - 1, r - 1>> \in DOMAIN f THEN f[<<c - 1, r - 1>>] ELSE Template[r][c] ] ]

\* The maps with at most n cells of a code other than Air's, each such code
\* one of `codes`.
Maps(n, codes) ==
  { rawMapData(f) :
      f \in UNION { [ S -> codes ] :
                      S \in { S \in SUBSET Cells : Cardinality(S) <= n } } }

\* Every code of TileFactory.tileMapping but Air's.
Codes == 1..(Len(tileMapping) - 1)

NoFuse == [ c \in Cells |-> -1 ]

\* The history of an operation that starts in the current state.
Record(op, args, ret) ==
  [ op |-> op, args |-> args, ret |-> ret, tiles |-> tiles,
    playerX |-> playerX, playerY |-> playerY, bombCount |-> bombCount,
    gameOver |-> gameOver, inputs |-> inputs ]

\* The maps with one Stone and Air elsewhere.
LoneStone == { rawMapData([ c \in { s } |-> 2 ]) : s \in Cells }

\* The two opposite corners of the grid: from the first the player has the
\* grid's edge to its left and above, from the second to its right and below.
Corners == { <<0, 0>>, <<Len(Template[1]) - 1, Len(Template) - 1>> }

\* new Game(rawMapData, startX, startY, initialBombs), with the given choice
\* of maps, of start cells and of initial bomb counts.
Construct(maps, starts, counts) ==
  /\ \E raw \in maps : tiles = initializeMap(raw)
  /\ \E c \in starts : playerX = c[1] /\ playerY = c[2]
  /\ bombCount \in counts
  /\ gameOver = FALSE
  /\ exploded = {}
  /\ fuse = NoFuse
  /\ inputs = << >>
  /\ delay = initialDelay
  /\ tickReady = FALSE
  /\ frames = 0
  /\ typed = 0
  /\ relocated = << >>
  /\ killed = {}
  /\ last = [ op |-> "init", args |-> <<>>, ret |-> "none", tiles |-> tiles,
              playerX |-> playerX, playerY |-> playerY, bombCount |-> bombCount,
              gameOver |-> gameOver, inputs |-> inputs ]

---------------------------------------------------------------------------
(* Operations.                                                             *)

\* An Up/Down/Left/RightInput handled: Player.move(dx, dy).
Move ==
  \E d \in Directions :
    LET to == playerMove(tiles, playerX, playerY, d[1], d[2])
    IN  /\ ~gameOver
        /\ playerX' = to[1]
        /\ playerY' = to[2]
        /\ last' = Record("move", d, "none")
        /\ UNCHANGED <<tiles, bombCount, gameOver, fuse, pass, clock>>

\* A PlaceBombInput handled: Player.placeBomb().
PlaceBomb ==
  /\ ~gameOver
  /\ tiles' = placeBomb(tiles, playerX, playerY, bombCount)
  /\ fuse' = IF tiles' # tiles THEN [ fuse EXCEPT ![<<playerX, playerY>>] = 0 ] ELSE fuse
  /\ last' = Record("placeBomb", <<>>, "none")
  /\ UNCHANGED <<playerX, playerY, bombCount, gameOver, pass, clock>>

\* GameMap.updateTiles(), one whole pass.
UpdateTiles ==
  \E lucky \in SUBSET { c \in Cells : At(tiles, c) = "Stone" } :
    \E m \in { updateTiles(tiles, lucky) } :
        /\ ~gameOver
        /\ tiles' = m.tiles
        /\ exploded' = m.exploded
        /\ relocated' = m.relocated
        /\ killed' = m.killed
        /\ fuse' = [ c \in Cells |->
                       IF fuse[c] >= 0 /\ fuse[c] < FuseCap THEN fuse[c] + 1 ELSE fuse[c] ]
        /\ last' = Record("updateTiles", <<>>, "none")
        /\ UNCHANGED <<playerX, playerY, bombCount, gameOver, clock>>

\* Player.checkCollision(game).
CheckCollision ==
  \E r \in { checkCollision(tiles, playerX, playerY, bombCount, gameOver) } :
      /\ ~gameOver
      /\ tiles' = r.tiles
      /\ bombCount' = r.bombCount
      /\ gameOver' = r.gameOver
      /\ last' = Record("checkCollision", <<>>, "none")
      /\ UNCHANGED <<playerX, playerY, fuse, pass, clock>>

\* GameMap.explode(x, y), as BombReallyClose.update calls it: at a cell that
\* holds a BombReallyClose.
Explode ==
  \E c \in Cells :
    \E lucky \in SUBSET { s \in Cells : At(tiles, s) = "Stone" } :
      /\ ~gameOver
      /\ At(tiles, c) = "BombReallyClose"
      /\ tiles' = explode(tiles, c[1], c[2], lucky)
      /\ last' = Record("explode", c, "none")
      /\ UNCHANGED <<playerX, playerY, bombCount, gameOver, fuse, pass, clock>>

\* The tiles currentState can hold at a cell whose live tile is `live` when
\* the loops of updateTiles reach it: the live tile itself, or the tile an
\* earlier iteration of the pass overwrote (an explosion turns a Stone or a
\* monster into Fire, or a Stone into a powerup; a monster arrives on Air
\* from the left or from above, and an explosion can then turn it into Fire).
Snapshots(live) ==
  { live } \cup
  ( CASE live = "Fire" -> Monsters \cup { "Stone", "Air" }
      [] live = "ExtraBombPowerup" -> { "Stone" }
      [] live \in { "TmpMonsterRight", "TmpMonsterDown" } -> { "Air" }
      [] OTHER -> {} )

\* One iteration of the loops of GameMap.updateTiles, at cell c:
\* currentState[y][x].update(this, x, y).
UpdateTile ==
  \E c \in Cells :
    \E tile \in Snapshots(At(tiles, c)) :
      \E lucky \in SUBSET { s \in Cells : At(tiles, s) = "Stone" } :
        \E m \in { update(passStart(tiles), c[1], c[2], tile, lucky) } :
            /\ ~gameOver
            /\ tiles' = m.tiles
            /\ last' = Record("update", c, tile)
            /\ UNCHANGED <<playerX, playerY, bombCount, gameOver, fuse, pass, clock>>

\* GameMap.getTile(x, y), at a position of the grid or of the ring around it.
GetTile ==
  \E p \in Probes :
    /\ last' = Record("getTile", p, getTile(tiles, p[1], p[2]))
    /\ UNCHANGED <<tiles, playerX, playerY, bombCount, gameOver, fuse, pass, clock>>

\* GameMap.setTile(x, y, tile), at a position of the grid or of the ring
\* around it.
SetTile ==
  \E p \in Probes, tile \in Tile :
    /\ tiles' = setTile(tiles, p[1], p[2], tile)
    /\ last' = Record("setTile", p, tile)
    /\ UNCHANGED <<playerX, playerY, bombCount, gameOver, fuse, pass, clock>>

\* The cells placeBomb has written a Bomb to.
Placed == { c \in Cells : fuse[c] >= 0 }

\* A keydown event, between two frames: the listener of InputHandler.
KeyDown ==
  \E key \in Keys :
    /\ typed < MaxKeys
    /\ inputs' = addInput(inputs, key)
    /\ typed' = typed + 1
    /\ last' = Record("keydown", keyMap(key), "none")
    /\ UNCHANGED <<tiles, playerX, playerY, bombCount, gameOver, fuse, pass,
                   delay, tickReady, frames>>

\* The game as a frame starts.
Game ==
  [ tiles |-> tiles, playerX |-> playerX, playerY |-> playerY,
    bombCount |-> bombCount, gameOver |-> gameOver, inputs |-> inputs,
    delay |-> delay, tickReady |-> tickReady,
    path |-> << >>, bombs |-> {}, ticked |-> FALSE,
    exploded |-> exploded, relocated |-> relocated, killed |-> killed ]

\* One frame: Game.gameLoop, called by run() and then by its own timer.
Frame ==
  \E lucky \in SUBSET { c \in Cells : At(tiles, c) = "Stone" } :
    \E s \in { gameLoop(Game, lucky) } :
        /\ gameOver \/ frames < MaxFrames
        /\ tiles' = s.tiles
        /\ playerX' = s.playerX
        /\ playerY' = s.playerY
        /\ bombCount' = s.bombCount
        /\ gameOver' = s.gameOver
        /\ inputs' = s.inputs
        /\ delay' = s.delay
        /\ tickReady' = s.tickReady
        /\ exploded' = s.exploded
        /\ relocated' = s.relocated
        /\ killed' = s.killed
        /\ frames' = IF gameOver THEN frames ELSE frames + 1
        /\ fuse' = [ c \in Cells |->
                       LET f == IF c \in s.bombs THEN 0 ELSE fuse[c]
                       IN  IF s.ticked /\ f >= 0 /\ f < FuseCap THEN f + 1 ELSE f ]
        /\ last' = Record("frame", << >>, [ path |-> s.path, ticked |-> s.ticked ])
        /\ UNCHANGED typed

---------------------------------------------------------------------------
(* Specifications.                                                         *)

\* No operation has run yet since the game was constructed.
Fresh == last.op = "init"

\* Each operation of the game, applied once to the state a game is
\* constructed in: any map of at most MaxFeatures non-Air cells, the player
\* at the start cell of window.onload.
InitOps == Construct(Maps(MaxFeatures, Codes), { <<startX, startY>> }, { initialBombs })

NextOps ==
  \/ Fresh /\ Move
  \/ Fresh /\ PlaceBomb
  \/ Fresh /\ UpdateTiles
  \/ Fresh /\ UpdateTile
  \/ Fresh /\ CheckCollision
  \/ Fresh /\ Explode

SpecOps == InitOps /\ [][NextOps]_vars

\* The same, with the accessors of the grid, on the maps of at most
\* MaxObstacles non-Air cells, the player in a corner with or without a bomb.
InitMap == Construct(Maps(MaxObstacles, Codes), Corners, 0..initialBombs)

NextMap ==
  \/ Fresh /\ Move
  \/ Fresh /\ PlaceBomb
  \/ Fresh /\ UpdateTiles
  \/ Fresh /\ UpdateTile
  \/ Fresh /\ CheckCollision
  \/ Fresh /\ Explode
  \/ Fresh /\ GetTile
  \/ Fresh /\ SetTile

SpecMap == InitMap /\ [][NextMap]_vars

\* Runs of the game's operations in any order and number, with at most
\* MaxPlaced bombs placed, on the maps of a lone Stone, the player on any
\* cell.
InitFuse == Construct(LoneStone, Cells, { initialBombs })

NextFuse ==
  \/ Move
  \/ Cardinality(Placed) < MaxPlaced /\ PlaceBomb
  \/ UpdateTiles
  \/ CheckCollision

SpecFuse == InitFuse /\ [][NextFuse]_vars

\* The maps with at most one cell of a code other than Air's, which is not
\* the start cell of window.onload.
LoneFeature ==
  { rawMapData(f) :
      f \in UNION { [ S -> Codes ] :
                      S \in { {} } \cup { { c } : c \in Cells \ { <<startX, startY>> } } } }

\* The game: frames, with keydown events between them, from a game
\* constructed as window.onload constructs it, on a map of at most one
\* non-Air cell.
InitGame == Construct(LoneFeature, { <<startX, startY>> }, { initialBombs })

NextGame ==
  \/ KeyDown
  \/ Frame

SpecGame == InitGame /\ [][NextGame]_vars

---------------------------------------------------------------------------
(* Properties. `last` holds the state the latest operation started from, so *)
(* each property of an operation reads as a relation between last and the   *)
(* current state.                                                           *)

\* The positions above, below, left and right of c.
Neighbours(c) ==
  { <<c[1], c[2] - 1>>, <<c[1], c[2] + 1>>, <<c[1] - 1, c[2]>>, <<c[1] + 1, c[2]>> }

\* The grid the latest operation started from, and the player's cell then.
Before == last.tiles
PlayerBefore == <<last.playerX, last.playerY>>

\* Grid g with tile t at cell c and every other cell as it was.
With(g, c, t) ==
  [ r \in 1..Len(g) |->
      [ k \in 1..Len(g[r]) |-> IF <<k - 1, r - 1>> = c THEN t ELSE g[r][k] ] ]

\* C1, as amended: a bomb placed by placeBomb holds Bomb until the next
\* updateTiles pass, BombClose after the 1st pass and BombReallyClose after
\* the 2nd, neither pass exploding it, and the 3rd pass after the placement
\* triggers the explosion centred on its cell.
C1_ExplodesOnThirdTick ==
  \A c \in Cells :
    /\ fuse[c] = 0 => At(tiles, c) = "Bomb"
    /\ fuse[c] = 1 => At(tiles, c) = "BombClose" /\ c \notin exploded
    /\ fuse[c] = 2 => At(tiles, c) = "BombReallyClose" /\ c \notin exploded
    /\ fuse[c] = 3 => c \in exploded

\* C1, as stated: the three stages take one pass each, none of the first
\* three passes after the placement explodes the bomb, and the 4th does.
C1_ExplodesOnFourthTick ==
  \A c \in Cells :
    /\ fuse[c] = 0 => At(tiles, c) = "Bomb"
    /\ fuse[c] = 1 => At(tiles, c) = "BombClose"
    /\ fuse[c] = 2 => At(tiles, c) = "BombReallyClose"
    /\ fuse[c] \in 1..3 => c \notin exploded
    /\ fuse[c] = 4 => c \in exploded

\* C1's case: the 3rd pass after a placement has just run and exploded the
\* placed bomb.
C1_ThirdTickExploded ==
  /\ last.op = "updateTiles"
  /\ \E c \in Cells : fuse[c] = 3 /\ c \in exploded

\* C2, as stated: after an updateTiles pass, every cell a BombReallyClose
\* exploded at in that pass holds Fire.
C2_OriginHoldsFire ==
  last.op = "updateTiles" =>
    \A c \in exploded : At(tiles, c) = "Fire"

\* C3: explode(x, y) leaves every cell other than (x, y) and its four
\* orthogonal neighbours as it was, and leaves an orthogonal neighbour that
\* holds Unbreakable, a bomb stage or ExtraBombPowerup as it was.
C3_ExplodeTouchesThePlusOnly ==
  last.op = "explode" =>
    \A d \in Cells :
      ( \/ d \notin Neighbours(last.args) \cup { last.args }
        \/ /\ d \in Neighbours(last.args)
           /\ At(Before, d) \in { "Unbreakable", "Bomb", "BombClose",
                                  "BombReallyClose", "ExtraBombPowerup" } )
      => At(tiles, d) = At(Before, d)

\* C3's case: explode has run at a cell with another bomb right beside it.
C3_BombBesideTheExplosion ==
  /\ last.op = "explode"
  /\ \E d \in Neighbours(last.args) \cap Cells : At(Before, d) \in BombStages

\* C4: a Stone orthogonally adjacent to a bomb that explodes holds Fire or
\* ExtraBombPowerup once the pass (or the explode call) is over, and every
\* other Stone is left a Stone by every operation.
C4_StoneFate ==
  \A c \in Cells :
    At(Before, c) = "Stone" =>
      IF \/ last.op = "updateTiles" /\ Neighbours(c) \cap exploded # {}
         \/ /\ last.op \in { "explode", "update" }
            /\ last.args \in Neighbours(c)
            /\ At(Before, last.args) = "BombReallyClose"
      THEN At(tiles, c) \in { "Fire", "ExtraBombPowerup" }
      ELSE At(tiles, c) = "Stone"

\* C4's case: a pass has exploded a bomb beside a Stone, which came out as
\* an ExtraBombPowerup.
C4_StoneBecamePowerup ==
  /\ last.op = "updateTiles"
  /\ \E c \in Cells :
       /\ At(Before, c) = "Stone"
       /\ Neighbours(c) \cap exploded # {}
       /\ At(tiles, c) = "ExtraBombPowerup"

\* C5, as stated: a cell that holds Fire when an updateTiles pass starts
\* holds Air when the pass ends.
C5_FireHoldsAirAfterTick ==
  last.op = "updateTiles" =>
    \A c \in Cells : At(Before, c) = "Fire" => At(tiles, c) = "Air"

\* The monsters that face a direction and move: not the arrival variants.
Directional == { "MonsterRight", "MonsterDown", "MonsterLeft", "MonsterUp" }

\* The cell one step along the facing of directional monster t at cell c.
Ahead(c, t) ==
  CASE t = "MonsterRight" -> <<c[1] + 1, c[2]>>
    [] t = "MonsterDown" -> <<c[1], c[2] + 1>>
    [] t = "MonsterLeft" -> <<c[1] - 1, c[2]>>
    [] t = "MonsterUp" -> <<c[1], c[2] - 1>>

\* The arrival variant of each facing.
Arrival(t) ==
  CASE t = "MonsterRight" -> "TmpMonsterRight"
    [] t = "MonsterDown" -> "TmpMonsterDown"
    [] t = "MonsterLeft" -> "MonsterLeft"
    [] t = "MonsterUp" -> "MonsterUp"

\* The rotation of the facings: Right -> Down -> Left -> Up -> Right.
Turned(t) ==
  CASE t = "MonsterRight" -> "MonsterDown"
    [] t = "MonsterDown" -> "MonsterLeft"
    [] t = "MonsterLeft" -> "MonsterUp"
    [] t = "MonsterUp" -> "MonsterRight"

\* Position p of grid g is in bounds and holds Air.
HoldsAir(g, p) == p \in Cells /\ At(g, p) = "Air"

\* The latest operation ticked directional monster t at cell c: either it
\* was the update of t at c, or a whole pass on a map whose only non-Air
\* cell is c, holding t.
Ticked(c, t) ==
  /\ t \in Directional
  /\ \/ last.op = "update" /\ last.args = c /\ last.ret = t
     \/ /\ last.op = "updateTiles"
        /\ At(Before, c) = t
        /\ { d \in Cells : At(Before, d) # "Air" } = { c }

\* The cells the latest operation can have ticked a monster at.
TickedCells ==
  CASE last.op = "update" -> { last.args }
    [] last.op = "updateTiles" -> Cells
    [] OTHER -> {}

\* C6: a directional monster ticked with Air one step along its facing
\* relocates by one cell: the destination holds its arrival variant, its
\* source holds Air, and every other cell is as it was.
C6_MonsterAdvances ==
  \A c \in TickedCells, t \in Directional :
    Ticked(c, t) /\ HoldsAir(Before, Ahead(c, t)) =>
      tiles = With(With(Before, c, "Air"), Ahead(c, t), Arrival(t))

\* C6's case: a pass has moved a lone MonsterRight one cell to the right.
C6_MonsterRightAdvanced ==
  /\ last.op = "updateTiles"
  /\ \E c \in Cells :
       /\ Ticked(c, "MonsterRight")
       /\ At(tiles, c) = "Air"
       /\ HoldsAir(Before, <<c[1] + 1, c[2]>>)
       /\ At(tiles, <<c[1] + 1, c[2]>>) = "TmpMonsterRight"

\* C7: a directional monster ticked with anything but Air one step along
\* its facing (the edge of the grid included) stays in its cell with the
\* next facing of the rotation, and every other cell is as it was.
C7_MonsterTurns ==
  \A c \in TickedCells, t \in Directional :
    Ticked(c, t) /\ ~HoldsAir(Before, Ahead(c, t)) =>
      tiles = With(Before, c, Turned(t))

\* C7's case: a MonsterRight with an Unbreakable to its right has been
\* ticked and is a MonsterDown in the same cell.
C7_MonsterRightTurnedDown ==
  /\ last.op = "update"
  /\ Ticked(last.args, "MonsterRight")
  /\ At(Before, last.args) = "MonsterRight"
  /\ <<last.args[1] + 1, last.args[2]>> \in Cells
  /\ At(Before, <<last.args[1] + 1, last.args[2]>>) = "Unbreakable"
  /\ At(tiles, last.args) = "MonsterDown"

\* The cells of grid g that hold a monster.
MonsterCells(g) == { c \in Cells : At(g, c) \in Monsters }

\* C8: getTile at a position outside the grid returns a tile that is not
\* Air, not walkable and not explodable; setTile there leaves the grid as it
\* was; and no operation takes the player or a monster off the grid or
\* changes the grid's shape.
C8_OutOfBounds ==
  /\ last.op = "getTile" /\ last.args \notin Cells =>
       /\ ~isAir(last.ret)
       /\ ~isWalkable(last.ret)
       /\ ~isExplodable(last.ret)
  /\ last.op = "setTile" /\ last.args \notin Cells => tiles = Before
  /\ <<playerX, playerY>> \in Cells
  /\ Len(tiles) = Len(Template)
  /\ \A r \in 1..Len(tiles) : Len(tiles[r]) = Len(Template[r])
  /\ \A c \in Cells : At(tiles, c) \in Tile
  /\ /\ last.op = "updateTiles"
     /\ \A c \in Cells : At(Before, c) # "BombReallyClose"
     => Cardinality(MonsterCells(tiles)) = Cardinality(MonsterCells(Before))

\* C8's case: setTile has run at a position outside the grid.
C8_SetTileOutside ==
  /\ last.op = "setTile"
  /\ last.args \notin Cells

\* C9: Player.move(dx, dy) puts the player on (x + dx, y + dy) if that
\* position is in the grid and holds Air, Fire or ExtraBombPowerup, leaves
\* the player where it was otherwise, and changes no cell.
C9_MoveIffWalkable ==
  last.op = "move" =>
    LET dest == <<last.playerX + last.args[1], last.playerY + last.args[2]>>
    IN  /\ tiles = Before
        /\ IF dest \in Cells /\ At(Before, dest) \in { "Air", "Fire", "ExtraBombPowerup" }
           THEN <<playerX, playerY>> = dest
           ELSE <<playerX, playerY>> = PlayerBefore

\* C9's case: a move has put the player on an ExtraBombPowerup.
C9_SteppedOntoPowerup ==
  /\ last.op = "move"
  /\ <<playerX, playerY>> # PlayerBefore
  /\ At(tiles, <<playerX, playerY>>) = "ExtraBombPowerup"

\* C10: placeBomb leaves the grid as it was when the bomb count is 0 or the
\* player's cell is not Air, writes Bomb to the player's cell and nothing
\* else otherwise, and never changes the bomb count or the player's cell.
C10_PlaceBomb ==
  last.op = "placeBomb" =>
    /\ bombCount = last.bombCount
    /\ <<playerX, playerY>> = PlayerBefore
    /\ IF last.bombCount = 0 \/ At(Before, PlayerBefore) # "Air"
       THEN tiles = Before
       ELSE tiles = With(Before, PlayerBefore, "Bomb")

\* C10's case: placeBomb has run on an Air cell with no bomb left.
C10_PlacedWithNoBomb ==
  /\ last.op = "placeBomb"
  /\ last.bombCount = 0
  /\ At(Before, PlayerBefore) = "Air"

\* The latest operation was a frame in which Game.update ran.
Updated == last.op = "frame" /\ ~last.gameOver

\* The cells that held tile t when the latest frame started and that a
\* Player.move of that frame put the player on.
SteppedOnto(t) ==
  IF Updated
  THEN { c \in Cells : /\ At(Before, c) = t
                        /\ \E i \in 1..Len(last.ret.path) : last.ret.path[i] = c }
  ELSE {}

\* C11, as stated: a frame in which the player steps onto ExtraBombPowerup
\* cells ends with the bomb count increased by 1 for each such cell, and
\* with Air in each of them, whatever the commands of the frame.
C11_PickupOnEveryStep ==
  SteppedOnto("ExtraBombPowerup") # {} =>
    /\ bombCount = last.bombCount + Cardinality(SteppedOnto("ExtraBombPowerup"))
    /\ \A c \in SteppedOnto("ExtraBombPowerup") : At(tiles, c) = "Air"

\* C12, as stated: a frame in which the player steps onto a Fire cell, or
\* that ends with a monster in the player's cell, ends with the game over.
C12_ContactEndsTheGame ==
  /\ Updated
  /\ \/ SteppedOnto("Fire") # {}
     \/ At(tiles, <<playerX, playerY>>) \in Monsters
  => gameOver

\* C13: once the game is over it stays over, and neither a frame nor a
\* keydown event changes a cell, the player's cell or the bomb count; a
\* frame leaves the queued inputs in the queue, unhandled.
C13_GameOverAbsorbs ==
  last.gameOver =>
    /\ gameOver
    /\ tiles = Before
    /\ <<playerX, playerY>> = PlayerBefore
    /\ bombCount = last.bombCount
    /\ last.op = "frame" => inputs = last.inputs

\* C13's case: a frame has run with the game over and inputs in the queue.
C13_FrameAfterGameOver ==
  /\ last.op = "frame"
  /\ last.gameOver
  /\ last.inputs # << >>

\* The cells tryMove moved a monster out of in the latest pass.
MovedFrom == { relocated[i][1] : i \in 1..Len(relocated) }

\* C14, as stated: in an updateTiles pass, a directional monster of the
\* grid the pass started from is relocated if and only if the cell one step
\* along its facing held Air in that grid.
C14_MovesDecidedOnSnapshot ==
  last.op = "updateTiles" =>
    \A c \in Cells :
      At(Before, c) \in Directional =>
        ( c \in MovedFrom <=> HoldsAir(Before, Ahead(c, At(Before, c))) )

\* C15, as stated: after an updateTiles pass, every cell where an explosion
\* of the pass reached a monster holds Fire, and the grid holds one monster
\* less for each such cell.
C15_ExplodedMonsterBurns ==
  last.op = "updateTiles" /\ killed # {} =>
    /\ \A c \in killed : At(tiles, c) = "Fire"
    /\ Cardinality(MonsterCells(tiles)) =
         Cardinality(MonsterCells(Before)) - Cardinality(killed)

\* C16: the k-th call of Game.update runs updateTiles if and only if k is a
\* multiple of FPS / TPS = 15; in every other one a cell changes only from
\* Air to Bomb, where placeBomb put it (a cell the player was on), or from
\* ExtraBombPowerup to Air, where the player ends the frame.
C16_TickEveryNthFrame ==
  Updated =>
    /\ last.ret.ticked <=> frames % (FPS \div TPS) = 0
    /\ FPS \div TPS = 15
    /\ ~last.ret.ticked =>
         \A c \in Cells :
           At(tiles, c) # At(Before, c) =>
             \/ /\ At(Before, c) = "Air"
                /\ At(tiles, c) = "Bomb"
                /\ c = PlayerBefore \/ \E i \in 1..Len(last.ret.path) : last.ret.path[i] = c
             \/ /\ At(Before, c) = "ExtraBombPowerup"
                /\ At(tiles, c) = "Air"
                /\ c = <<playerX, playerY>>

\* C16's case: the 15th call of Game.update has run updateTiles, which
\* changed the grid.
C16_FifteenthFrameTicked ==
  /\ Updated
  /\ frames = 15
  /\ last.ret.ticked
  /\ tiles # Before

\* C17: every operation of the game (a pass, one update, an explosion, a
\* player move, placeBomb, checkCollision) leaves Unbreakable exactly in the
\* cells that held it: none is overwritten and none is created.
C17_UnbreakableForever ==
  \A c \in Cells :
    At(Before, c) = "Unbreakable" <=> At(tiles, c) = "Unbreakable"

\* C17's case: a pass has exploded a bomb right beside an Unbreakable.
C17_ExplosionBesideUnbreakable ==
  /\ last.op = "updateTiles"
  /\ \E c \in exploded :
       \E d \in Neighbours(c) \cap Cells : At(Before, d) = "Unbreakable"

\* C18: no whole operation of the game (an updateTiles pass, an explosion,
\* a player move, placeBomb, checkCollision) leaves more monster tiles on
\* the grid than it found.
C18_MonstersNeverMultiply ==
  last.op # "update" =>
    Cardinality(MonsterCells(tiles)) <= Cardinality(MonsterCells(Before))

\* C18's case: a pass has destroyed a monster and then, ticking it from the
\* snapshot, moved it out of its cell.
C18_DestroyedMonsterMoved ==
  /\ last.op = "updateTiles"
  /\ killed \cap MovedFrom # {}

\* C19: in an updateTiles pass no move starts from the cell an earlier move
\* of the pass arrived in, every move ends in a cell of the grid
\* orthogonally adjacent to the one it started from, and every monster of
\* the grid after the pass is in a cell that held a monster before it or
\* is orthogonally adjacent to one that did.
C19_OneMovePerPass ==
  last.op = "updateTiles" =>
    /\ \A i, j \in 1..Len(relocated) :
         i < j => relocated[j][1] # relocated[i][2]
    /\ \A i \in 1..Len(relocated) :
         relocated[i][2] \in Neighbours(relocated[i][1]) \cap Cells
    /\ \A c \in MonsterCells(tiles) :
         \/ c \in MonsterCells(Before)
         \/ Neighbours(c) \cap MonsterCells(Before) # {}

\* C19's case: a pass has moved a MonsterDown into the row below, which the
\* loops reach later in the same pass, and it is there as a TmpMonsterDown.
C19_MonsterDownArrived ==
  /\ last.op = "updateTiles"
  /\ \E i \in 1..Len(relocated) :
       /\ At(Before, relocated[i][1]) = "MonsterDown"
       /\ relocated[i][2] = <<relocated[i][1][1], relocated[i][1][2] + 1>>
       /\ At(tiles, relocated[i][2]) = "TmpMonsterDown"

\* C20: in a game that started with the player on an Air cell of the grid,
\* as long as the game is not over every frame ends with the player on a
\* cell of the grid that holds Air or a bomb stage.
C20_PlayerOnAirOrBomb ==
  ~gameOver =>
    /\ <<playerX, playerY>> \in Cells
    /\ At(tiles, <<playerX, playerY>>) \in { "Air" } \cup BombStages

\* C20's case: a frame has ended, the game not over, with the player on a
\* cell that held an ExtraBombPowerup when the frame started.
C20_EndedFrameOnPickup ==
  /\ Updated
  /\ ~gameOver
  /\ <<playerX, playerY>> \in SteppedOnto("ExtraBombPowerup")

===========================================================================
